---- MODULE Spec2Model ----
(***************************************************************************)
(* ECMA ArrayBuffer object routines                                        *)
(* (jerry-core/ecma/operations/ecma-arraybuffer-object.c).                 *)
(*                                                                         *)
(* The heap is a flat byte-addressed memory; an object pointer is the      *)
(* address of its header and the data buffer of an ArrayBuffer object      *)
(* starts right after the extended header.  uint32_t / size_t are machine  *)
(* words of WordBits bits: TLC's integers stop below 2^31, so the word is  *)
(* scaled down and every size computation is reduced modulo 2^WordBits.    *)
(***************************************************************************)
EXTENDS Integers, Sequences, FiniteSets, TLC

\* ---- bounds of the model ------------------------------------------------
WordBits == 5        \* width of uint32_t / size_t in the model
MaxObjects == 2      \* ArrayBuffer objects the heap may hold
MaxSrcLen == 3       \* longest source buffer whose clones are enumerated

\* ---- program constants ---------------------------------------------------
HeaderSize == 16     \* sizeof (ecma_extended_object_t)
JMEM_ALIGNMENT == 8

\* first heap address; 0 is NULL
HeapStart == JMEM_ALIGNMENT

WordModulus == 2 ^ WordBits
UINT32_MAX == WordModulus - 1

BYTE_MAX == 255      \* lit_utf8_byte_t is uint8_t

LIT_MAGIC_STRING_ARRAY_BUFFER_UL == "ArrayBuffer"
LIT_MAGIC_STRING_OBJECT_UL == "Object"
LIT_MAGIC_STRING_STRING_UL == "String"
LIT_MAGIC_STRING_UNDEFINED == "Undefined"
ECMA_OBJECT_TYPE_CLASS == "class"
ECMA_OBJECT_TYPE_GENERAL == "general"

RangeErrorMsg == "Invalid ArrayBuffer length."

\* ---- ecma_number_t -------------------------------------------------------
\* A number is NaN, +Infinity, -Infinity or a finite value held as twice
\* its value (n2), which gives one fractional bit: 2.5 is n2 = 5.
NumFin(n2) == [cls |-> "fin", n2 |-> n2]
NumInt(i) == NumFin(2 * i)
NumNaN == [cls |-> "nan", n2 |-> 0]
NumPInf == [cls |-> "pinf", n2 |-> 0]
NumNInf == [cls |-> "ninf", n2 |-> 0]

\* C comparison num == other on ecma_number_t: NaN equals nothing.
NumberEq(a, b) ==
  /\ a.cls # "nan"
  /\ b.cls # "nan"
  /\ a.cls = b.cls
  /\ a.n2 = b.n2

\* truncation toward zero of a finite number
NumberTrunc(num) ==
  IF num.n2 >= 0 THEN num.n2 \div 2 ELSE -((-num.n2) \div 2)

\* ecma_number_to_uint32 (ES 9.6 ToUint32): NaN and the infinities give 0,
\* a finite number is truncated toward zero and reduced modulo 2^WordBits.
ecma_number_to_uint32(num) ==
  IF num.cls # "fin" THEN 0 ELSE NumberTrunc(num) % WordModulus

\* (ecma_number_t) length
uint32_to_number(u) == NumInt(u)

\* ---- ecma_value_t --------------------------------------------------------
MkValue(tag, num, ptr, str) == [tag |-> tag, num |-> num, ptr |-> ptr, str |-> str]
ecma_make_simple_value(v) == MkValue(v, NumNaN, 0, "")
ECMA_SIMPLE_VALUE_EMPTY == "empty"
ecma_make_number_value(num) == MkValue("number", num, 0, "")
ecma_make_string_value(s) == MkValue("string", NumNaN, 0, s)
ecma_make_object_value(p) == MkValue("object", NumNaN, p, "")
ecma_make_error_value(kind, msg) == MkValue("error", NumNaN, 0, kind \o ": " \o msg)
ecma_raise_range_error(msg) == ecma_make_error_value("RangeError", msg)

Undefined == ecma_make_simple_value("undefined")
Empty == ecma_make_simple_value(ECMA_SIMPLE_VALUE_EMPTY)

ecma_is_value_empty(v) == v.tag = ECMA_SIMPLE_VALUE_EMPTY
ecma_is_value_number(v) == v.tag = "number"
ecma_is_value_object(v) == v.tag = "object"
ecma_is_value_error(v) == v.tag = "error"
ecma_get_object_from_value(v) == v.ptr
ecma_get_number_from_value(v) == v.num

\* ---- state ---------------------------------------------------------------
VARIABLES
  objects,      \* object pointer -> header fields of the object at that address
  mem,          \* heap address -> byte
  heap_top,     \* first address the allocator has not handed out
  proto_refs,   \* reference count of the ArrayBuffer.prototype built-in
  proto_log,    \* acquire / link / release events on the prototype, in order
  views,        \* buffer handles held by typed views
  made,         \* object pointers returned by the constructor or by clone
  call,         \* the last operation called, with its inputs
  ret           \* what it returned

vars == <<objects, mem, heap_top, proto_refs, proto_log, views, made, call, ret>>

\* The heap part of the state, as the record the routines work on.
Heap ==
  [objects |-> objects, mem |-> mem, heap_top |-> heap_top,
   proto_refs |-> proto_refs, proto_log |-> proto_log]

\* ---- collaborators: allocator, built-ins, object helpers ----------------
ProtoPtr == HeapStart
PlainPtr == HeapStart + JMEM_ALIGNMENT
StringPtr == HeapStart + 2 * JMEM_ALIGNMENT

Header(type, class_id, length, size, prototype) ==
  [type |-> type, class_id |-> class_id, length |-> length, size |-> size,
   prototype |-> prototype]

AlignUp(size) ==
  ((size + JMEM_ALIGNMENT - 1) \div JMEM_ALIGNMENT) * JMEM_ALIGNMENT

\* Reading and writing the heap; an address outside the heap reads as 0 and
\* a write to it is dropped.
Load(m, a) == IF a \in DOMAIN m THEN m[a] ELSE 0
Store(m, a, b) == IF a \in DOMAIN m THEN [m EXCEPT ![a] = b] ELSE m

\* ecma_builtin_get: the built-in with one more reference on it
ecma_builtin_get(h) ==
  [h EXCEPT !.proto_refs = @ + 1, !.proto_log = Append(@, "acquire")]

\* ecma_deref_object on the prototype
ecma_deref_object(h) ==
  [h EXCEPT !.proto_refs = @ - 1, !.proto_log = Append(@, "release")]

\* ecma_create_object: a block of `size` bytes at the top of the heap, its
\* header linked to the prototype, its class fields not yet set and the
\* bytes after the header holding whatever the block held before (junk).
ecma_create_object(h, prototype, size, type, junk) ==
  LET p == h.heap_top
      top == p + AlignUp(size)
  IN [h EXCEPT
        !.objects = [q \in DOMAIN h.objects \cup {p} |->
                       IF q = p
                       THEN Header(type, LIT_MAGIC_STRING_UNDEFINED, 0, size, prototype)
                       ELSE h.objects[q]],
        !.mem = [a \in 0 .. (top - 1) |->
                   IF a < p THEN h.mem[a]
                   ELSE IF a < p + HeaderSize THEN 0
                   ELSE junk],
        !.heap_top = top,
        !.proto_log = Append(@, "link")]

\* ecma_object_get_class_name
ecma_object_get_class_name(h, obj_p) ==
  IF h.objects[obj_p].type = ECMA_OBJECT_TYPE_CLASS
  THEN h.objects[obj_p].class_id
  ELSE LIT_MAGIC_STRING_OBJECT_UL

\* ecma_object_class_is
ecma_object_class_is(h, obj_p, class_id) ==
  /\ obj_p \in DOMAIN h.objects
  /\ h.objects[obj_p].type = ECMA_OBJECT_TYPE_CLASS
  /\ h.objects[obj_p].class_id = class_id

\* memset (buf, 0, length)
memset_zero_short(m, buf, length) ==
  [a \in DOMAIN m |-> IF a >= buf /\ a < buf + length - 1 THEN 0 ELSE m[a]]
memset_zero(m, buf, length) ==
  [a \in DOMAIN m |-> IF a >= buf /\ a < buf + length THEN 0 ELSE m[a]]

\* memcpy (dst, src, length), the two regions not overlapping
memcpy_swapped(m, dst, src, length) ==
  [a \in DOMAIN m |->
     IF a >= src /\ a < src + length THEN Load(m, dst + (a - src)) ELSE m[a]]
memcpy(m, dst, src, length) ==
  [a \in DOMAIN m |->
     IF a >= dst /\ a < dst + length THEN Load(m, src + (a - dst)) ELSE m[a]]

\* ---- ecma-arraybuffer-object.c ------------------------------------------

\* sizeof (ecma_extended_object_t) + length, in size_t
ObjectSize(length) == (HeaderSize + length) % WordModulus

\* (lit_utf8_byte_t *) (ext_object_p + 1)
DataStart(object_p) == object_p + HeaderSize

ecma_arraybuffer_new_object_no_deref(h, length, junk) ==
  LET h1 == ecma_builtin_get(h)
      object_p == h1.heap_top
      h2 == ecma_create_object(h1, ProtoPtr, ObjectSize(length),
                               ECMA_OBJECT_TYPE_CLASS, junk)
      h4 == [h2 EXCEPT
               !.objects[object_p].class_id = LIT_MAGIC_STRING_ARRAY_BUFFER_UL,
               !.objects[object_p].length = length]
      buf == DataStart(object_p)
  IN [h |-> [h4 EXCEPT !.mem = memset_zero(@, buf, length)],
      object_p |-> object_p]

ecma_arraybuffer_new_object(h, length, junk) ==
  LET h1 == ecma_builtin_get(h)
      object_p == h1.heap_top
      h2 == ecma_create_object(h1, ProtoPtr, ObjectSize(length),
                               ECMA_OBJECT_TYPE_CLASS, junk)
      h3 == ecma_deref_object(h2)
      h4 == [h3 EXCEPT
               !.objects[object_p].class_id = LIT_MAGIC_STRING_ARRAY_BUFFER_UL,
               !.objects[object_p].length = length]
      buf == DataStart(object_p)
  IN [h |-> [h4 EXCEPT !.mem = memset_zero(@, buf, length)],
      object_p |-> object_p]

ecma_arraybuffer_get_length(h, object_p) == h.objects[object_p].length

\* (lit_utf8_byte_t *) (ext_object_p + 1)
ecma_arraybuffer_get_buffer_byte_step(h, object_p) == object_p + 1
ecma_arraybuffer_get_buffer(h, object_p) == object_p + HeaderSize

ecma_is_arraybuffer_any_class(h, target) ==
  IF ~ecma_is_value_object(target)
  THEN FALSE
  ELSE h.objects[ecma_get_object_from_value(target)].type = ECMA_OBJECT_TYPE_CLASS

ecma_is_arraybuffer(h, target) ==
  IF ~ecma_is_value_object(target)
  THEN FALSE
  ELSE ecma_object_get_class_name(h, ecma_get_object_from_value(target))
         = LIT_MAGIC_STRING_ARRAY_BUFFER_UL

ecma_arraybuffer_clone_arraybuffer_no_offset(h, array_buf_p, offset, junk) ==
  LET length == ecma_arraybuffer_get_length(h, array_buf_p) - offset
      r == ecma_arraybuffer_new_object(h, length, junk)
      src_buf_p == ecma_arraybuffer_get_buffer(r.h, array_buf_p)
      dst_buf_p == ecma_arraybuffer_get_buffer(r.h, r.object_p)
  IN [h |-> [r.h EXCEPT !.mem = memcpy(@, dst_buf_p, src_buf_p, length)],
      object_p |-> r.object_p]

ecma_arraybuffer_clone_arraybuffer(h, array_buf_p, offset, junk) ==
  LET length == ecma_arraybuffer_get_length(h, array_buf_p) - offset
      r == ecma_arraybuffer_new_object(h, length, junk)
      src_buf_p == ecma_arraybuffer_get_buffer(r.h, array_buf_p)
      dst_buf_p == ecma_arraybuffer_get_buffer(r.h, r.object_p)
  IN [h |-> [r.h EXCEPT !.mem = memcpy(@, dst_buf_p, src_buf_p + offset, length)],
      object_p |-> r.object_p]

\* length > UINT32_MAX - sizeof (ecma_extended_object_t) - JMEM_ALIGNMENT + 1
LengthOverflows_no_alignment(length) == length > UINT32_MAX - HeaderSize + 1
LengthOverflows_no_header(length) == length > UINT32_MAX - JMEM_ALIGNMENT + 1
LengthOverflows(length) == length > UINT32_MAX - HeaderSize - JMEM_ALIGNMENT + 1

\* num != ((ecma_number_t) length)
LengthMismatch_truncated(num, length) ==
  ~NumberEq(NumInt(NumberTrunc(num)), uint32_to_number(length))
LengthMismatch(num, length) == ~NumberEq(num, uint32_to_number(length))

\* ECMA_OP_TO_NUMBER_TRY_CATCH (num, value, ret): a number argument is taken
\* as it is; any other value goes through ecma_op_to_number, whose outcome
\* is conv: a number value, which becomes num, or an error value, which
\* becomes ret while num stays NaN.
ECMA_OP_TO_NUMBER_TRY_CATCH(value, conv) ==
  IF ecma_is_value_number(value)
  THEN [num |-> ecma_get_number_from_value(value), ret |-> Empty]
  ELSE IF ecma_is_value_error(conv)
  THEN [num |-> NumNaN, ret |-> conv]
  ELSE [num |-> ecma_get_number_from_value(conv), ret |-> Empty]

\* if (!ecma_is_value_empty (ret)) return ret;
CoercionFailed_ignored(ret_value) == FALSE
CoercionFailed(ret_value) == ~ecma_is_value_empty(ret_value)

ecma_op_create_arraybuffer_object(h, arguments_list, conv, junk) ==
  LET given == Len(arguments_list) > 0
      t == IF given
           THEN ECMA_OP_TO_NUMBER_TRY_CATCH(arguments_list[1], conv)
           ELSE [num |-> NumNaN, ret |-> Empty]
      \* the statements between the macro and ECMA_OP_TO_NUMBER_FINALIZE run
      \* when the macro left ret empty
      entered == given /\ ecma_is_value_empty(t.ret)
      length == IF entered THEN ecma_number_to_uint32(t.num) ELSE 0
  IN IF entered /\ LengthMismatch(t.num, length)
     THEN [h |-> h, ret |-> ecma_raise_range_error(RangeErrorMsg)]
     ELSE IF given /\ CoercionFailed(t.ret)
     THEN [h |-> h, ret |-> t.ret]
     ELSE IF LengthOverflows(length)
     THEN [h |-> h, ret |-> ecma_raise_range_error(RangeErrorMsg)]
     ELSE LET r == ecma_arraybuffer_new_object(h, length, junk)
          IN [h |-> r.h, ret |-> ecma_make_object_value(r.object_p)]

\* ---- inputs --------------------------------------------------------------
\* the largest length the constructor accepts
MAX_SAFE_LENGTH == UINT32_MAX - HeaderSize - JMEM_ALIGNMENT + 1

TypeErrorValue == ecma_make_error_value("TypeError", "Cannot convert to number.")
ThrownValue == ecma_make_error_value("Error", "thrown by valueOf")

\* what a fresh heap block may hold, and what typed views store
JunkValues == {0, BYTE_MAX}
WriteValues == {0, BYTE_MAX}

\* ecma_op_to_number, as the set of its possible outcomes: a number value,
\* or the error value raised while converting an object.
StringToNumber(s) ==
  IF s = "" THEN NumInt(0) ELSE IF s = "2" THEN NumInt(2) ELSE NumNaN

ecma_op_to_number(value) ==
  IF value.tag = "number" THEN {value}
  ELSE IF value.tag = "undefined" THEN {ecma_make_number_value(NumNaN)}
  ELSE IF value.tag = "null" THEN {ecma_make_number_value(NumInt(0))}
  ELSE IF value.tag = "true" THEN {ecma_make_number_value(NumInt(1))}
  ELSE IF value.tag = "false" THEN {ecma_make_number_value(NumInt(0))}
  ELSE IF value.tag = "string" THEN {ecma_make_number_value(StringToNumber(value.str))}
  ELSE {TypeErrorValue, ThrownValue, ecma_make_number_value(NumInt(2))}

\* outcomes of the coercion the constructor asks for
Coercions(arguments_list) ==
  IF Len(arguments_list) = 0 THEN {Empty} ELSE ecma_op_to_number(arguments_list[1])

PrimitiveValues ==
  {Undefined, ecma_make_simple_value("null"), ecma_make_simple_value("true"),
   ecma_make_number_value(NumInt(2)), ecma_make_string_value("2")}

\* every finite number from -2 to 2^WordBits + 2 in steps of one half
SweepNumbers ==
  {NumFin(n2) : n2 \in (-4) .. (2 * WordModulus + 4)} \cup {NumNaN, NumPInf, NumNInf}

\* the lengths at the edges of each case of the constructor
EdgeNumbers ==
  {NumInt(2), NumFin(5), NumInt(MAX_SAFE_LENGTH), NumInt(MAX_SAFE_LENGTH + 1)}

ArgLists(numbers, others) ==
  {<< >>} \cup {<<ecma_make_number_value(n)>> : n \in numbers}
          \cup {<<v>> : v \in others}

\* ---- the state machine ---------------------------------------------------
NoCall == [fn |-> "none", args |-> << >>, conv |-> Empty, obj |-> 0, off |-> 0, val |-> 0]
CallOf(fn, args, conv, obj, off, val) ==
  [fn |-> fn, args |-> args, conv |-> conv, obj |-> obj, off |-> off, val |-> val]

\* results that are not ecma values: a raw object pointer, a buffer
\* pointer, a length, a C bool
RetWord(kind, w) == MkValue(kind, NumNaN, w, "")
RetBool(b) == ecma_make_simple_value(IF b THEN "true" ELSE "false")

IsBuffer(objs, p) ==
  /\ p \in DOMAIN objs
  /\ objs[p].type = ECMA_OBJECT_TYPE_CLASS
  /\ objs[p].class_id = LIT_MAGIC_STRING_ARRAY_BUFFER_UL

Buffers(objs) == {p \in DOMAIN objs : IsBuffer(objs, p)}

InitObjects ==
  [p \in {ProtoPtr, PlainPtr, StringPtr} |->
     IF p = StringPtr
     THEN Header(ECMA_OBJECT_TYPE_CLASS, LIT_MAGIC_STRING_STRING_UL, 0, HeaderSize, 0)
     ELSE Header(ECMA_OBJECT_TYPE_GENERAL, LIT_MAGIC_STRING_UNDEFINED, 0,
                 JMEM_ALIGNMENT, 0)]

InitHeap ==
  [objects |-> InitObjects,
   mem |-> [a \in 0 .. (StringPtr + HeaderSize - 1) |-> 0],
   heap_top |-> StringPtr + HeaderSize,
   proto_refs |-> 1,
   proto_log |-> << >>]

Commit(h) ==
  /\ objects' = h.objects
  /\ mem' = h.mem
  /\ heap_top' = h.heap_top
  /\ proto_refs' = h.proto_refs
  /\ proto_log' = h.proto_log

Init ==
  /\ objects = InitHeap.objects
  /\ mem = InitHeap.mem
  /\ heap_top = InitHeap.heap_top
  /\ proto_refs = InitHeap.proto_refs
  /\ proto_log = InitHeap.proto_log
  /\ views = {}
  /\ made = {}
  /\ call = NoCall
  /\ ret = Empty

\* the constructor, called with one of `lists`; it may allocate while the
\* heap holds fewer than `cap` buffers
Create(lists, cap) ==
  \E arguments_list \in lists :
    \E conv \in Coercions(arguments_list) :
      \E junk \in JunkValues :
        LET r == ecma_op_create_arraybuffer_object(Heap, arguments_list, conv, junk)
        IN /\ r.h.heap_top # heap_top => Cardinality(Buffers(objects)) < cap
           /\ Commit(r.h)
           /\ call' = CallOf("create", arguments_list, conv, 0, 0, 0)
           /\ ret' = r.ret
           /\ made' = IF ecma_is_value_object(r.ret)
                      THEN made \cup {ecma_get_object_from_value(r.ret)}
                      ELSE made
           /\ UNCHANGED views

\* the offsets within a buffer of `length` bytes that are at most `near`,
\* and the offset at its end
Offsets(length, near) == {o \in 0 .. length : o <= near \/ o = length}

\* clone, called as its callers may: on a buffer, with an offset within it
Clone(near) ==
  \E array_buf_p \in Buffers(objects) :
    \E offset \in Offsets(ecma_arraybuffer_get_length(Heap, array_buf_p), near) :
      \E junk \in JunkValues :
        LET r == ecma_arraybuffer_clone_arraybuffer(Heap, array_buf_p, offset, junk)
        IN /\ Cardinality(Buffers(objects)) < MaxObjects
           /\ offset <= ecma_arraybuffer_get_length(Heap, array_buf_p)
           /\ Commit(r.h)
           /\ call' = CallOf("clone", << >>, Empty, array_buf_p, offset, 0)
           /\ ret' = RetWord("object_p", r.object_p)
           /\ made' = made \cup {r.object_p}
           /\ UNCHANGED views

IsArrayBuffer ==
  \E target \in PrimitiveValues \cup {ecma_make_object_value(p) : p \in DOMAIN objects} :
    /\ call' = CallOf("is_arraybuffer", <<target>>, Empty, 0, 0, 0)
    /\ ret' = RetBool(ecma_is_arraybuffer(Heap, target))
    /\ UNCHANGED <<objects, mem, heap_top, proto_refs, proto_log, views, made>>

GetLength ==
  \E object_p \in DOMAIN objects :
    /\ ecma_object_class_is(Heap, object_p, LIT_MAGIC_STRING_ARRAY_BUFFER_UL)
    /\ call' = CallOf("get_length", << >>, Empty, object_p, 0, 0)
    /\ ret' = RetWord("length", ecma_arraybuffer_get_length(Heap, object_p))
    /\ UNCHANGED <<objects, mem, heap_top, proto_refs, proto_log, views, made>>

\* a typed view takes the buffer pointer of an object and keeps it
GetBuffer ==
  \E object_p \in DOMAIN objects :
    /\ ecma_object_class_is(Heap, object_p, LIT_MAGIC_STRING_ARRAY_BUFFER_UL)
    /\ call' = CallOf("get_buffer", << >>, Empty, object_p, 0, 0)
    /\ ret' = RetWord("buffer_p", ecma_arraybuffer_get_buffer(Heap, object_p))
    /\ views' = views \cup
         {[obj |-> object_p,
           buf |-> ecma_arraybuffer_get_buffer(Heap, object_p),
           len |-> ecma_arraybuffer_get_length(Heap, object_p)]}
    /\ UNCHANGED <<objects, mem, heap_top, proto_refs, proto_log, made>>

\* a typed view stores a byte through the pointer it holds, at the last
\* index of the buffer
ViewWrite ==
  \E v \in views :
    \E i \in {v.len - 1} :
      \E b \in WriteValues :
        /\ i >= 0
        /\ i < v.len
        /\ mem' = Store(mem, v.buf + i, b)
        /\ call' = CallOf("view_write", << >>, Empty, v.obj, i, b)
        /\ ret' = Empty
        /\ UNCHANGED <<objects, heap_top, proto_refs, proto_log, views, made>>

Next ==
  \/ Create(ArgLists(EdgeNumbers, {ecma_make_object_value(PlainPtr)}), MaxObjects)
  \/ Clone(1)
  \/ IsArrayBuffer
  \/ GetLength
  \/ GetBuffer
  \/ ViewWrite

Spec == Init /\ [][Next]_vars

\* ---- the constructor alone, over every number ----------------------------
\* One construction on a fresh heap and any number of failing ones, the
\* length argument ranging over SweepNumbers and over values of other types.
CreateNext ==
  Create(ArgLists(SweepNumbers,
                  PrimitiveValues \cup {ecma_make_object_value(p) : p \in DOMAIN objects}),
         1)

CreateSpec == Init /\ [][CreateNext]_vars

\* ---- clone alone, over every source and offset ---------------------------
ContentValues == {0, 1, BYTE_MAX}

\* the bytes `content` stored in the buffer of object_p, as typed views may
FillBuffer(h, object_p, content) ==
  [h EXCEPT !.mem =
     [a \in DOMAIN h.mem |->
        IF a >= DataStart(object_p) /\ a < DataStart(object_p) + Len(content)
        THEN content[a - DataStart(object_p) + 1]
        ELSE h.mem[a]]]

\* a heap holding one buffer of up to MaxSrcLen bytes with any contents
CloneInit ==
  \E length \in 0 .. MaxSrcLen :
    \E content \in [1 .. length -> ContentValues] :
      LET r == ecma_arraybuffer_new_object(InitHeap, length, 0)
          h == FillBuffer(r.h, r.object_p, content)
      IN /\ objects = h.objects
         /\ mem = h.mem
         /\ heap_top = h.heap_top
         /\ proto_refs = h.proto_refs
         /\ proto_log = h.proto_log
         /\ views = {}
         /\ made = {r.object_p}
         /\ call = NoCall
         /\ ret = Empty

CloneNext == Clone(UINT32_MAX)

CloneSpec == CloneInit /\ [][CloneNext]_vars

\* ---- properties ----------------------------------------------------------
RangeErrorValue == ecma_raise_range_error(RangeErrorMsg)

\* the value the constructor's length comes from: the first argument when
\* it is a number, else what the coercion of it gave; 0 without arguments
Requested(c) ==
  IF Len(c.args) = 0 THEN ecma_make_number_value(NumInt(0))
  ELSE IF c.args[1].tag = "number" THEN c.args[1]
  ELSE c.conv

\* num is an integer from 0 to UINT32_MAX
ExactUint32(num) ==
  /\ num.cls = "fin"
  /\ num.n2 >= 0
  /\ num.n2 % 2 = 0
  /\ num.n2 \div 2 <= UINT32_MAX

\* the bytes of the buffer object at p, as a sequence
BytesOf(m, objs, p) == [i \in 1 .. objs[p].length |-> Load(m, p + HeaderSize + i - 1)]

HeapUnchanged == UNCHANGED <<objects, mem, heap_top, proto_refs, proto_log, made>>

\* C1: a construction whose argument coerces to an integer L from 0 to
\* MAX_SAFE_LENGTH (L = 0 without arguments) returns a buffer object of
\* length L whose block is the header plus L bytes, all of them zero.
C1_CreateZeroFilled ==
  \A L \in 0 .. MAX_SAFE_LENGTH :
    (call.fn = "create" /\ Requested(call) = ecma_make_number_value(NumInt(L)))
      => /\ ecma_is_value_object(ret)
         /\ IsBuffer(objects, ret.ptr)
         /\ objects[ret.ptr].length = L
         /\ objects[ret.ptr].size = HeaderSize + L
         /\ \A a \in (ret.ptr + HeaderSize) .. (ret.ptr + HeaderSize + L - 1) :
              a \in DOMAIN mem /\ mem[a] = 0

C1_Witness ==
  /\ call.fn = "create"
  /\ Len(call.args) = 1
  /\ Requested(call) = ecma_make_number_value(NumInt(MAX_SAFE_LENGTH))
  /\ ecma_is_value_object(ret)
  /\ objects[ret.ptr].length = MAX_SAFE_LENGTH

\* C2: a construction whose coerced number is not an integer from 0 to
\* UINT32_MAX returns the range error and leaves the heap as it was.
C2_InexactLengthRejected ==
  [][(/\ call'.fn = "create"
      /\ Len(call'.args) > 0
      /\ ecma_is_value_number(Requested(call'))
      /\ ~ExactUint32(Requested(call').num))
       => (ret' = RangeErrorValue /\ HeapUnchanged)]_vars

C2_Witness ==
  /\ call.fn = "create"
  /\ call.args = <<ecma_make_number_value(NumFin(5))>>
  /\ ret = RangeErrorValue
  /\ Buffers(objects) # {}

\* C3: a construction whose length is an integer above MAX_SAFE_LENGTH
\* returns the range error and allocates nothing.
C3_OverflowRejected ==
  [][(/\ call'.fn = "create"
      /\ ecma_is_value_number(Requested(call'))
      /\ ExactUint32(Requested(call').num)
      /\ Requested(call').num.n2 \div 2 > MAX_SAFE_LENGTH)
       => (ret' = RangeErrorValue /\ HeapUnchanged)]_vars

C3_Witness ==
  /\ call.fn = "create"
  /\ call.args = <<ecma_make_number_value(NumInt(MAX_SAFE_LENGTH + 1))>>
  /\ ret = RangeErrorValue
  /\ Buffers(objects) # {}

\* C4: clone of a buffer of length L at offset O returns another object, a
\* buffer of length L - O whose byte i is byte O + i of the source.
C4_CloneCopiesSuffix ==
  call.fn = "clone"
    => /\ ret.ptr # call.obj
       /\ IsBuffer(objects, ret.ptr)
       /\ objects[ret.ptr].length = objects[call.obj].length - call.off
       /\ \A i \in 0 .. (objects[call.obj].length - call.off - 1) :
            Load(mem, ret.ptr + HeaderSize + i)
              = Load(mem, call.obj + HeaderSize + call.off + i)

C4_Witness ==
  /\ call.fn = "clone"
  /\ call.off = 1
  /\ objects[call.obj].length = MaxSrcLen
  /\ BytesOf(mem, objects, call.obj)[1] = BYTE_MAX
  /\ BytesOf(mem, objects, call.obj)[2] = 1
  /\ BytesOf(mem, objects, ret.ptr)[1] = 1

\* C5: ecma_is_arraybuffer is true of a value exactly when it is an object
\* whose class tag is ArrayBuffer, those objects are the ones the
\* constructor and clone returned, and the call changes nothing.
C5_Targets ==
  PrimitiveValues \cup {ecma_make_object_value(p) : p \in DOMAIN objects}

C5_IsArrayBufferExact ==
  /\ [](/\ \A v \in C5_Targets :
             /\ ecma_is_arraybuffer(Heap, v)
                  <=> (v.tag = "object" /\ IsBuffer(objects, v.ptr))
             /\ ecma_is_arraybuffer(Heap, v)
                  <=> (v.tag = "object" /\ v.ptr \in made)
        /\ call.fn = "is_arraybuffer"
             => ret = RetBool(call.args[1].tag = "object" /\ call.args[1].ptr \in made))
  /\ [][call'.fn = "is_arraybuffer"
          => UNCHANGED <<objects, mem, heap_top, proto_refs, proto_log, views, made>>]_vars

C5_Witness ==
  /\ call.fn = "is_arraybuffer"
  /\ call.args[1].tag = "object"
  /\ call.args[1].ptr \in made
  /\ ret = RetBool(TRUE)
  /\ ~ecma_is_arraybuffer(Heap, ecma_make_object_value(StringPtr))

\* C6: a buffer pointer is the address of the object's own bytes, the ones
\* after its header and inside its block: pointers taken from one object
\* are equal, also to the one a later call gives, pointers taken from two
\* objects span disjoint ranges, and a byte stored through one pointer is
\* the byte read through every pointer to the same object.
C6_BufferAliasesObject ==
  /\ \A v \in views :
       /\ v.buf >= v.obj + HeaderSize
       /\ v.buf + v.len <= v.obj + objects[v.obj].size
       /\ v.buf = ecma_arraybuffer_get_buffer(Heap, v.obj)
       /\ v.len = objects[v.obj].length
  /\ \A v \in views : \A w \in views :
       IF v.obj = w.obj
       THEN v.buf = w.buf
       ELSE v.buf + v.len <= w.buf \/ w.buf + w.len <= v.buf
  /\ call.fn = "view_write"
       => /\ Load(mem, ecma_arraybuffer_get_buffer(Heap, call.obj) + call.off) = call.val
          /\ \A v \in views :
               v.obj = call.obj => Load(mem, v.buf + call.off) = call.val
          /\ BytesOf(mem, objects, call.obj)[call.off + 1] = call.val

C6_Witness ==
  /\ call.fn = "view_write"
  /\ call.val = BYTE_MAX
  /\ Cardinality(views) = 2
  /\ \E v \in views : v.obj = call.obj /\ v.len = MAX_SAFE_LENGTH
                       /\ Load(mem, v.buf + call.off) = BYTE_MAX

\* C7: when the coercion of the first argument fails, the constructor
\* returns the very error value the coercion produced and leaves the heap
\* as it was.
C7_CoercionErrorPropagated ==
  [][(/\ call'.fn = "create"
      /\ Len(call'.args) > 0
      /\ ~ecma_is_value_number(call'.args[1])
      /\ ecma_is_value_error(call'.conv))
       => (ret' = call'.conv /\ ret' # RangeErrorValue /\ HeapUnchanged)]_vars

C7_Witness ==
  /\ call.fn = "create"
  /\ call.args = <<ecma_make_object_value(PlainPtr)>>
  /\ call.conv = ThrownValue
  /\ ret = ThrownValue
  /\ Buffers(objects) # {}

\* C8: for every buffer object the size of its block, header plus length
\* rounded up to the allocator's alignment, fits the size type: the size
\* asked of the allocator is header plus length, not that sum wrapped, and
\* a clone is no longer than its source.
C8_SizeNeverWraps ==
  /\ \A p \in Buffers(objects) :
       /\ HeaderSize + objects[p].length <= UINT32_MAX
       /\ AlignUp(HeaderSize + objects[p].length) <= UINT32_MAX
       /\ objects[p].size = HeaderSize + objects[p].length
       /\ objects[p].length <= MAX_SAFE_LENGTH
  /\ call.fn = "clone"
       => objects[ret.ptr].length <= objects[call.obj].length

C8_Witness ==
  /\ call.fn = "clone"
  /\ call.off = 0
  /\ objects[call.obj].length = MAX_SAFE_LENGTH
  /\ objects[ret.ptr].size = HeaderSize + MAX_SAFE_LENGTH

\* C9: no step changes the class tag, the length or the block size of an
\* existing buffer object, and no step changes its bytes other than a
\* typed view's store to it, which changes the one byte stored to.
C9_ExistingBuffersKept ==
  [][\A p \in Buffers(objects) :
       /\ p \in DOMAIN objects'
       /\ objects'[p] = objects[p]
       /\ \A i \in 0 .. (objects[p].length - 1) :
            (call'.fn = "view_write" /\ call'.obj = p /\ call'.off = i)
              \/ Load(mem', p + HeaderSize + i) = Load(mem, p + HeaderSize + i)]_vars

C9_Witness ==
  /\ call.fn = "clone"
  /\ call.off = 0
  /\ objects[call.obj].length = 2
  /\ BytesOf(mem, objects, call.obj) = <<0, BYTE_MAX>>
  /\ BytesOf(mem, objects, ret.ptr) = <<0, BYTE_MAX>>
  /\ Cardinality(views) = 1

\* C10: the prototype is acquired, linked and released once, in that
\* order, for each buffer object created and for nothing else, so the
\* reference count of the prototype is what it was at the start.
C10_PrototypeBalanced ==
  /\ proto_refs = InitHeap.proto_refs
  /\ Len(proto_log) = 3 * Cardinality(Buffers(objects))
  /\ Cardinality(made) = Cardinality(Buffers(objects))
  /\ \A k \in 1 .. Len(proto_log) :
       proto_log[k] = IF k % 3 = 1 THEN "acquire"
                      ELSE IF k % 3 = 2 THEN "link" ELSE "release"

C10_Witness ==
  /\ call.fn = "create"
  /\ ecma_is_value_error(ret)
  /\ Len(proto_log) = 3 * MaxObjects
  /\ \E p \in made : \E q \in made : objects[q].length < objects[p].length
====
